---- MODULE Spec2Model ----
(***************************************************************************)
(* A model of bank_statement_extractor.py: the amount cleaner, the two     *)
(* extraction strategies of extract_transactions (the camelot table        *)
(* extractor and the line-scanning text parser), flag_transactions and the *)
(* main driver.                                                            *)
(*                                                                         *)
(* A Python str is a sequence of one-character strings.  Python None, a    *)
(* float and NaN/NaT are records tagged by the field k, so that any two    *)
(* values can be compared.                                                 *)
(***************************************************************************)
EXTENDS Integers, Sequences, FiniteSets, TLC

VARIABLES
    pc,          \* where the run is
    readable,    \* whether pdfplumber can open the document
    HAS_CAMELOT, \* the module flag set at import
    tables,      \* what camelot.read_pdf yields: tables of rows of cells
    lines,       \* full_text.splitlines() of the document
    t,           \* index of the table of the loop "for t in tables"
    r,           \* index of the row of the loop "for _, row in df.iterrows()"
    i,           \* index of the line of the loop "for line in lines"
    current,     \* the open record of the text parser
    records,     \* the list "records" of extract_transactions
    tx,          \* the DataFrame extract_transactions returns
    tx_flags,    \* the DataFrame flag_transactions returns
    warned,      \* whether warnings.warn was called
    written,     \* whether the two CSV files were written
    arg,         \* the argument of a direct call of clean_amount
    ret          \* what that call returned

vars == <<pc, readable, HAS_CAMELOT, tables, lines, t, r, i, current, records,
          tx, tx_flags, warned, written, arg, ret>>

-----------------------------------------------------------------------------
(* Python values *)

None == [k |-> "None"]

NaN == [k |-> "NaN"]

NaT == [k |-> "NaT"]

ValueError == [k |-> "ValueError"]

KeyError == [k |-> "KeyError"]

Str(s) == [k |-> "str", v |-> s]

\* A float that is the decimal mant / 10^exp, with no trailing zero in the
\* fraction, so that equal numbers are equal records.
RECURSIVE Float(_, _)
Float(mant, exp) ==
    IF exp > 0 /\ mant % 10 = 0 THEN Float(mant \div 10, exp - 1)
    ELSE [k |-> "float", m |-> mant, e |-> exp]

RECURSIVE Pow10(_)
Pow10(n) == IF n = 0 THEN 1 ELSE 10 * Pow10(n - 1)

IsFloat(x) == x.k = "float"

\* x > y of two Python floats; any comparison with NaN is False.
Greater(x, y) ==
    /\ IsFloat(x)
    /\ IsFloat(y)
    /\ x.m * Pow10(y.e) > y.m * Pow10(x.e)

Min(a, b) == IF a < b THEN a ELSE b

-----------------------------------------------------------------------------
(* Characters and str methods *)

Digits == {"0", "1", "2", "3", "4", "5", "6", "7", "8", "9"}

DigitVal(c) ==
    CASE c = "0" -> 0 [] c = "1" -> 1 [] c = "2" -> 2 [] c = "3" -> 3
      [] c = "4" -> 4 [] c = "5" -> 5 [] c = "6" -> 6 [] c = "7" -> 7
      [] c = "8" -> 8 [] c = "9" -> 9

UpperChars == <<"A", "B", "C", "D", "E", "F", "G", "H", "I", "J", "K", "L", "M",
                "N", "O", "P", "Q", "R", "S", "T", "U", "V", "W", "X", "Y", "Z">>

LowerChars == <<"a", "b", "c", "d", "e", "f", "g", "h", "i", "j", "k", "l", "m",
                "n", "o", "p", "q", "r", "s", "t", "u", "v", "w", "x", "y", "z">>

Range(f) == {f[x] : x \in DOMAIN f}

Whitespace == {" ", "\t"}

\* \w of the re module
IsWordChar(c) == c \in Digits \cup Range(UpperChars) \cup Range(LowerChars) \cup {"_"}

\* the case folding of re.I
Lower(c) ==
    IF c \in Range(UpperChars)
    THEN LowerChars[CHOOSE n \in DOMAIN UpperChars : UpperChars[n] = c]
    ELSE c

RECURSIVE lstrip(_)
lstrip(s) == IF s # <<>> /\ Head(s) \in Whitespace THEN lstrip(Tail(s)) ELSE s

RECURSIVE rstrip(_)
rstrip(s) ==
    IF s # <<>> /\ s[Len(s)] \in Whitespace THEN rstrip(SubSeq(s, 1, Len(s) - 1))
    ELSE s

strip(s) == lstrip(rstrip(s))

\* s.replace(old, new), old not empty
RECURSIVE replace(_, _, _)
replace(s, old, new) ==
    IF Len(s) < Len(old) THEN s
    ELSE IF SubSeq(s, 1, Len(old)) = old
         THEN new \o replace(SubSeq(s, Len(old) + 1, Len(s)), old, new)
         ELSE <<Head(s)>> \o replace(Tail(s), old, new)

\* sep.join(parts)
RECURSIVE join(_, _)
join(sep, parts) ==
    IF parts = <<>> THEN <<>>
    ELSE IF Len(parts) = 1 THEN parts[1]
    ELSE parts[1] \o sep \o join(sep, Tail(parts))

\* the number of digits of s from position p on
RECURSIVE DigitRun(_, _)
DigitRun(s, p) ==
    IF p \in 1..Len(s) /\ s[p] \in Digits THEN 1 + DigitRun(s, p + 1) ELSE 0

\* the integer a string of digits denotes
RECURSIVE DigitsValue(_)
DigitsValue(s) ==
    IF s = <<>> THEN 0
    ELSE 10 * DigitsValue(SubSeq(s, 1, Len(s) - 1)) + DigitVal(s[Len(s)])

-----------------------------------------------------------------------------
(* clean_amount *)

\* re.sub(r'[^\d\.]', '', s)
StripNonNumeric(s) == SelectSeq(s, LAMBDA c : c \in Digits \cup {"."})

\* float(s) for a str of digits, points and minus signs: an optional sign,
\* then digits with at most one point and at least one digit.
float(s) ==
    LET neg  == s # <<>> /\ Head(s) = "-"
        body == IF neg THEN Tail(s) ELSE s
        dots == SelectSeq(body, LAMBDA c : c = ".")
        digs == SelectSeq(body, LAMBDA c : c \in Digits)
        dot  == CHOOSE p \in 1..Len(body) : body[p] = "."
        frac == IF dots = <<>> THEN 0 ELSE Len(body) - dot
        mag  == DigitsValue(digs)
    IN  IF Len(dots) + Len(digs) # Len(body) \/ Len(dots) > 1 \/ digs = <<>>
        THEN ValueError
        ELSE Float(IF neg THEN 0 - mag ELSE mag, frac)

\* float(s) with the ValueError left to propagate
FloatUncaught(s) == float(s)

\* try: return float(s) / except: return None
FloatOrNone(s) == IF float(s) = ValueError THEN None ELSE float(s)

clean_amount(s) ==
    IF s = None THEN None
    ELSE LET s1 == strip(replace(replace(replace(s.v, <<"C", "r">>, <<>>),
                                         <<"D", "R">>, <<>>), <<"-">>, <<>>))
             s2 == replace(s1, <<",">>, <<>>)
             s3 == StripNonNumeric(s2)
         IN  IF s3 = <<>> THEN None ELSE FloatOrNone(s3)

-----------------------------------------------------------------------------
(* The regular expressions *)

\* Where a match of \d{1,3}(?:,\d{3})*(?:\.\d+)? that starts at the digit
\* s[p] ends (the position after it).  Every part takes all it can and
\* nothing after it can fail, so there is no backtracking.
RECURSIVE CommaGroupsEnd(_, _)
CommaGroupsEnd(s, p) ==
    IF p <= Len(s) /\ s[p] = "," /\ DigitRun(s, p + 1) >= 3
    THEN CommaGroupsEnd(s, p + 4)
    ELSE p

AmountEnd(s, p) ==
    LET a == p + Min(DigitRun(s, p), 3)
        b == CommaGroupsEnd(s, a)
    IN  IF b <= Len(s) /\ s[b] = "." /\ DigitRun(s, b + 1) >= 1
        THEN b + 1 + DigitRun(s, b + 1)
        ELSE b

RECURSIVE FindAmountsFrom(_, _)
FindAmountsFrom(s, p) ==
    IF p > Len(s) THEN <<>>
    ELSE IF s[p] \notin Digits THEN FindAmountsFrom(s, p + 1)
    ELSE <<SubSeq(s, p, AmountEnd(s, p) - 1)>> \o FindAmountsFrom(s, AmountEnd(s, p))

\* AMOUNT_RE.findall(s)
AMOUNT_RE_findall(s) == FindAmountsFrom(s, 1)

IsWordAt(s, p) == p \in 1..Len(s) /\ IsWordChar(s[p])

\* \b between s[p-1] and s[p]
WordBoundary(s, p) == IsWordAt(s, p - 1) # IsWordAt(s, p)

DateSeps == {"-", "/"}

\* \d{2}[-/]\d{2}[-/] at position p
DateHeadAt(s, p) ==
    /\ p + 5 <= Len(s)
    /\ s[p] \in Digits /\ s[p + 1] \in Digits /\ s[p + 2] \in DateSeps
    /\ s[p + 3] \in Digits /\ s[p + 4] \in Digits /\ s[p + 5] \in DateSeps

\* The length of the match of \d{2}[-/]\d{2}[-/]\d{2,4} at position p, 0 if
\* there is none: the year takes up to four digits.
DatePatternLen(s, p) ==
    IF DateHeadAt(s, p) /\ DigitRun(s, p + 6) >= 2
    THEN 6 + Min(DigitRun(s, p + 6), 4)
    ELSE 0

\* date_pattern.search(v): the leftmost match, None if there is none
date_pattern_search(v) ==
    LET hits == {p \in 1..Len(v) : DatePatternLen(v, p) > 0}
        p0   == CHOOSE p \in hits : \A q \in hits : p <= q
    IN  IF hits = {} THEN None
        ELSE [k |-> "match", group0 |-> SubSeq(v, p0, p0 + DatePatternLen(v, p0) - 1)]

\* date_rx.match(line), date_rx = ^\s*(\d{2}[/-]\d{2}[/-]\d{2,4})\b: the year
\* takes the most digits (4, 3, 2) after which there is a word boundary.
date_rx_match(line) ==
    LET p  == Len(line) - Len(lstrip(line)) + 1
        n  == DigitRun(line, p + 6)
        ks == {y \in 2..Min(n, 4) : WordBoundary(line, p + 6 + y)}
        y0 == CHOOSE y \in ks : \A z \in ks : z <= y
    IN  IF DateHeadAt(line, p) /\ ks # {}
        THEN [k |-> "match", group1 |-> SubSeq(line, p, p + 5 + y0), end |-> p + 5 + y0]
        ELSE None

\* whether s matches pat, a lower-case literal, at position p under re.I
MatchesAtI(s, p, pat) ==
    /\ p + Len(pat) - 1 <= Len(s)
    /\ \A j \in 1..Len(pat) : Lower(s[p + j - 1]) = pat[j]

\* bool(re.search(pat, s, re.I)) for a literal pat
SearchI(pat, s) == \E p \in 1..Len(s) : MatchesAtI(s, p, pat)

\* bool(re.search(r'\b' + pat + r'\b', s, re.I)) for a literal pat
SearchWordI(pat, s) ==
    \E p \in 1..Len(s) :
        /\ WordBoundary(s, p)
        /\ MatchesAtI(s, p, pat)
        /\ WordBoundary(s, p + Len(pat))

-----------------------------------------------------------------------------
(* DataFrames and their normalisation *)

TxColumns == <<"transaction_date", "description", "withdrawal_amount",
               "deposit_amount", "balance">>

FlagColumns == <<"flag_DD_large_withdrawal", "flag_RTGS_large_deposit",
                 "flag_entities">>

\* pd.DataFrame(records): the columns are the keys of the dicts, so a
\* DataFrame of no record has no column.
DataFrame(recs) ==
    [columns |-> IF recs = <<>> THEN <<>> ELSE TxColumns, rows |-> recs]

Empty(df) == df.rows = <<>> \/ df.columns = <<>>

DaysIn(month) == IF month = 2 THEN 29 ELSE IF month \in {4, 6, 9, 11} THEN 30 ELSE 31

\* pd.to_datetime(text, dayfirst=True, errors='coerce') of a text the date
\* patterns matched: day, month, year of 2 to 4 digits; NaT when day or month
\* is out of range.  A year of 2 digits is of the century the %y rule gives.
to_datetime(text) ==
    LET day   == DigitsValue(SubSeq(text, 1, 2))
        month == DigitsValue(SubSeq(text, 4, 5))
        yy    == SubSeq(text, 7, Len(text))
        year  == IF Len(yy) = 2
                 THEN (IF DigitsValue(yy) < 69 THEN 2000 ELSE 1900) + DigitsValue(yy)
                 ELSE DigitsValue(yy)
    IN  IF month \in 1..12 /\ day \in 1..DaysIn(month) /\ Len(yy) # 3
        THEN [k |-> "date", d |-> day, m |-> month, y |-> year]
        ELSE NaT

\* pd.to_numeric(x, errors='coerce') of a float or None
to_numeric(x) == IF x = None THEN NaN ELSE x

NormalizeRow(rec) ==
    [transaction_date  |-> to_datetime(rec.transaction_date),
     description       |-> rec.description,
     withdrawal_amount |-> to_numeric(rec.withdrawal_amount),
     deposit_amount    |-> to_numeric(rec.deposit_amount),
     balance           |-> to_numeric(rec.balance)]

Normalize(df) ==
    [columns |-> TxColumns, rows |-> [x \in DOMAIN df.rows |-> NormalizeRow(df.rows[x])]]

-----------------------------------------------------------------------------
(* The camelot strategy of extract_transactions *)

\* df.applymap(lambda x: x.strip() ...)
StripCells(df) == [x \in DOMAIN df |-> [y \in DOMAIN df[x] |-> strip(df[x][y])]]

\* the rows of the table whose first cell holds a date
DateRows(df) == {x \in DOMAIN df : date_pattern_search(df[x][1]) # None}

Hits(df) == Cardinality(DateRows(df))

AmountCell(cell) == IF cell # <<>> THEN clean_amount(Str(cell)) ELSE None

\* the last three numbers, when there are three: withdrawal, deposit, balance
LastThree(nums) ==
    LET n == Len(nums)
    IN  [w |-> clean_amount(Str(nums[n - 2])),
         d |-> clean_amount(Str(nums[n - 1])),
         b |-> clean_amount(Str(nums[n]))]

NoAmounts == [w |-> None, d |-> None, b |-> None]

MakeRecord(date, desc, a) ==
    [transaction_date  |-> date,
     description       |-> desc,
     withdrawal_amount |-> a.w,
     deposit_amount    |-> a.d,
     balance           |-> a.b]

\* the record of a row whose first cell holds a date
RowRecord(row) ==
    LET n    == Len(row)
        date == date_pattern_search(row[1]).group0
        rest == join(<<" ">>, SubSeq(row, 2, n))
        nums == AMOUNT_RE_findall(rest)
    IN  IF n >= 4
        THEN MakeRecord(date,
                 strip(join(<<" ">>, IF n > 4 THEN SubSeq(row, 2, n - 3)
                                              ELSE SubSeq(row, 2, n - 2))),
                 [w |-> AmountCell(row[n - 2]),
                  d |-> AmountCell(row[n - 1]),
                  b |-> AmountCell(row[n])])
        ELSE MakeRecord(date, rest, IF Len(nums) >= 3 THEN LastThree(nums) ELSE NoAmounts)

-----------------------------------------------------------------------------
(* The text strategy of extract_transactions *)

\* the numbers of an anchor line mapped to withdrawal, deposit, balance
MapNumbers(nums) ==
    LET n == Len(nums)
    IN  IF n >= 3 THEN LastThree(nums)
        ELSE IF n = 2
        THEN [w |-> None, d |-> clean_amount(Str(nums[1])), b |-> clean_amount(Str(nums[2]))]
        ELSE IF n = 1
        THEN [w |-> None, d |-> None, b |-> clean_amount(Str(nums[1]))]
        ELSE NoAmounts

\* the record an anchor line opens
OpenRecord(line) ==
    LET m == date_rx_match(line)
    IN  MakeRecord(m.group1, strip(SubSeq(line, m.end + 1, Len(line))),
                   MapNumbers(AMOUNT_RE_findall(line)))

\* the open record is dropped instead of appended
FinalizeDropped(recs, cur) == recs

\* if current: records.append(current)
Finalize(recs, cur) == IF cur # None THEN Append(recs, cur) ELSE recs

\* the line is joined without the separating space
ContinueUnspaced(desc, line) == desc \o strip(line)

\* (current.get('description') or '') + ' ' + line.strip()
Continue(desc, line) == desc \o <<" ">> \o strip(line)

\* the list of the camelot strategy is kept
KeepRecords(recs) == recs

\* records = [] at the start of the text strategy
ResetRecords(recs) == <<>>

-----------------------------------------------------------------------------
(* flag_transactions *)

DD_LIMIT == 10000

RTGS_LIMIT == 50000

Entities == {<<"g", "u", "d", "d", "u">>,
             <<"p", "r", "a", "b", "h", "a", "t">>,
             <<"a", "r", "i", "f">>,
             <<"c", "o", "a", "l", " ", "i", "n", "d", "i", "a">>}

\* x or 0: None and 0.0 are falsy, NaN is not
OrZero(x) == IF x = None \/ (IsFloat(x) /\ x.m = 0) THEN Float(0, 0) ELSE x

\* the amount test is >= instead of >
FlagDDInclusive(row) ==
    /\ ~Greater(Float(DD_LIMIT, 0), OrZero(row.withdrawal_amount))
    /\ OrZero(row.withdrawal_amount) # NaN
    /\ SearchWordI(<<"d", "d">>, row.description)

FlagDD(row) ==
    /\ Greater(OrZero(row.withdrawal_amount), Float(DD_LIMIT, 0))
    /\ SearchWordI(<<"d", "d">>, row.description)

FlagRTGS(row) ==
    /\ Greater(OrZero(row.deposit_amount), Float(RTGS_LIMIT, 0))
    /\ SearchI(<<"r", "t", "g", "s">>, row.description)

\* the entity pattern without its \b
FlagEntitiesSubstring(row) == \E e \in Entities : SearchI(e, row.description)

FlagEntities(row) == \E e \in Entities : SearchWordI(e, row.description)

FlagRow(row) ==
    [transaction_date         |-> row.transaction_date,
     description              |-> row.description,
     withdrawal_amount        |-> row.withdrawal_amount,
     deposit_amount           |-> row.deposit_amount,
     balance                  |-> row.balance,
     flag_DD_large_withdrawal |-> FlagDD(row),
     flag_RTGS_large_deposit  |-> FlagRTGS(row),
     flag_entities            |-> FlagEntities(row)]

\* df['description'] of a DataFrame without that column raises KeyError
flag_transactions(df) ==
    IF \A c \in DOMAIN df.columns : df.columns[c] # "description"
    THEN KeyError
    ELSE [columns |-> df.columns \o FlagColumns,
          rows    |-> [x \in DOMAIN df.rows |-> FlagRow(df.rows[x])]]

-----------------------------------------------------------------------------
(* The documents of the model *)

\* an anchor line with no amount: '01-01-2023 Salary'
LineSalary ==
    <<"0", "1", "-", "0", "1", "-", "2", "0", "2", "3", " ", "S", "a", "l", "a", "r", "y">>

\* a continuation line: 'credit'
LineCredit ==
    <<"c", "r", "e", "d", "i", "t">>

\* a continuation line with blanks around it: ' from employer '
LineEmployer ==
    <<" ", "f", "r", "o", "m", " ", "e", "m", "p", "l", "o", "y", "e", "r", " ">>

\* an anchor line with one amount and a year of two digits: '02/01/23 ATM 1,234.50'
LineOneNumber ==
    <<"0", "2", "/", "0", "1", "/", "2", "3", " ", "A", "T", "M", " ", "1", ",", "2", "3", "4", ".", "5", "0">>

\* an anchor line with two amounts: '05-01-2023 Z 10.00 20.00'
LineTwoNumbers ==
    <<"0", "5", "-", "0", "1", "-", "2", "0", "2", "3", " ", "Z", " ", "1", "0", ".", "0", "0", " ", "2", "0", ".", "0", "0">>

\* an indented anchor line with three amounts, the last without a comma: ' 03-01-2023 X 100.00 200.00 5300.00'
LinePlain ==
    <<" ", "0", "3", "-", "0", "1", "-", "2", "0", "2", "3", " ", "X", " ", "1", "0", "0", ".", "0", "0", " ", "2", "0", "0", ".", "0", "0", " ", "5", "3", "0", "0", ".", "0", "0">>

\* an anchor line with three amounts in groups of three digits: '04-01-2023 Y 1,000.00 2,000.00 5,300.00'
LineGrouped ==
    <<"0", "4", "-", "0", "1", "-", "2", "0", "2", "3", " ", "Y", " ", "1", ",", "0", "0", "0", ".", "0", "0", " ", "2", ",", "0", "0", "0", ".", "0", "0", " ", "5", ",", "3", "0", "0", ".", "0", "0">>

\* a line with a date that is not at its start: 'Statement from 01-01-2023'
LineHeader ==
    <<"S", "t", "a", "t", "e", "m", "e", "n", "t", " ", "f", "r", "o", "m", " ", "0", "1", "-", "0", "1", "-", "2", "0", "2", "3">>

\* an anchor line whose amounts pass both thresholds: '06-01-2023 RTGS DD 20,000.00 60,000.00 90,000.00'
LineTransfer ==
    <<"0", "6", "-", "0", "1", "-", "2", "0", "2", "3", " ", "R", "T", "G", "S", " ", "D", "D", " ", "2", "0", ",", "0", "0", "0", ".", "0", "0", " ", "6", "0", ",", "0", "0", "0", ".", "0", "0", " ", "9", "0", ",", "0", "0", "0", ".", "0", "0">>

\* six columns, two of them between the date and the amounts
TableSix ==
    <<<<<<"D", "a", "t", "e">>,
      <<"N", "a", "r", "r", "a", "t", "i", "o", "n">>,
      <<"R", "e", "f">>,
      <<"D", "r">>,
      <<"C", "r">>,
      <<"B", "a", "l">>>>,
     <<<<"0", "1", "-", "0", "1", "-", "2", "0", "2", "3", " ">>,
      <<"N", "E", "F", "T">>,
      <<"A", "1">>,
      <<>>,
      <<"5", "0", "0", ".", "0", "0">>,
      <<"1", ",", "5", "0", "0", ".", "0", "0">>>>,
     <<<<"0", "2", "-", "0", "1", "-", "2", "0", "2", "3">>,
      <<"A", "T", "M">>,
      <<"B", "2">>,
      <<"2", "0", "0", ".", "0", "0">>,
      <<>>,
      <<"1", ",", "3", "0", "0", ".", "0", "0">>>>>>

\* four columns
TableFour ==
    <<<<<<"0", "1", "-", "0", "1", "-", "2", "0", "2", "3">>,
      <<"A", "T", "M", " ", "5", "0", "0">>,
      <<"2", "0", "0", ".", "0", "0">>,
      <<"5", ",", "3", "0", "0", ".", "0", "0">>>>,
     <<<<"x">>,
      <<>>,
      <<>>,
      <<>>>>,
     <<<<"0", "2", "/", "0", "1", "/", "2", "3">>,
      <<"P", "O", "S">>,
      <<>>,
      <<"5", ",", "0", "0", "0", ".", "0", "0">>>>>>

\* three columns
TableThree ==
    <<<<<<"0", "1", "-", "0", "1", "-", "2", "0", "2", "3">>,
      <<"A", "T", "M">>,
      <<"5", ",", "3", "0", "0", ".", "0", "0">>>>,
     <<<<"0", "2", "-", "0", "1", "-", "2", "0", "2", "3">>,
      <<"X", " ", "1", ".", "0", "0", " ", "2", ".", "0", "0">>,
      <<"3", ".", "0", "0">>>>>>

\* one date only in the first column, so not the transactions table
TableOneDate ==
    <<<<<<"P", "e", "r", "i", "o", "d">>,
      <<"0", "1", "-", "0", "1", "-", "2", "0", "2", "3">>>>,
     <<<<"0", "1", "-", "0", "1", "-", "2", "0", "2", "3">>,
      <<"t", "o">>>>>>

TableSet == {TableSix, TableFour, TableThree, TableOneDate}

TextLineSet == {LineSalary, LineCredit, LineEmployer, LineOneNumber, LineTwoNumbers,
                LinePlain, LineGrouped}

\* the longest document of the text parser's specification, the example apart
MaxLines == 3

\* the most tables camelot finds
MaxTables == 2

SeqsUpTo(S, n) == UNION {[1..m -> S] : m \in 0..n}

\* the example of a description on three lines, before each anchor line
ExampleDocs ==
    {<<LineSalary, LineCredit, LineEmployer, last>> :
        last \in {LineSalary, LineOneNumber, LinePlain}}

\* the documents of the whole run: the prefixes of one statement
MainDocs == {<<>>, <<LineHeader>>, <<LineHeader, LineTransfer>>,
             <<LineHeader, LineTransfer, LineCredit>>,
             <<LineHeader, LineTransfer, LineCredit, LineGrouped>>}

-----------------------------------------------------------------------------
(* main and extract_transactions, step by step *)

Idle ==
    /\ t = 0 /\ r = 0 /\ i = 0
    /\ current = None
    /\ records = <<>>
    /\ tx = None
    /\ tx_flags = None
    /\ warned = FALSE
    /\ written = FALSE
    /\ arg = None
    /\ ret = None

\* A run of main on a document and the tables camelot finds in it.
Init ==
    /\ pc = "main"
    /\ readable \in BOOLEAN
    /\ HAS_CAMELOT \in BOOLEAN
    /\ tables \in SeqsUpTo(TableSet, MaxTables)
    /\ lines \in MainDocs
    /\ Idle

\* extract_account_info opens the document first: a document that cannot be
\* opened ends the run.  The account fields themselves are not modelled.
ExtractAccountInfo ==
    /\ pc = "main"
    /\ pc' = IF readable THEN "extract" ELSE "fatal"
    /\ UNCHANGED <<readable, HAS_CAMELOT, tables, lines, t, r, i, current, records,
                   tx, tx_flags, warned, written, arg, ret>>

\* if HAS_CAMELOT:
EnterExtract ==
    /\ pc = "extract"
    /\ pc' = IF HAS_CAMELOT THEN "camelot" ELSE "fallback"
    /\ UNCHANGED <<readable, HAS_CAMELOT, tables, lines, t, r, i, current, records,
                   tx, tx_flags, warned, written, arg, ret>>

\* tables = camelot.read_pdf(...)
ReadPdf ==
    /\ pc = "camelot"
    /\ pc' = "tables"
    /\ t' = 1
    /\ UNCHANGED <<readable, HAS_CAMELOT, tables, lines, r, i, current, records,
                   tx, tx_flags, warned, written, arg, ret>>

\* camelot.read_pdf raises: except Exception, warn, go on to the text strategy
ReadPdfRaises ==
    /\ pc = "camelot"
    /\ pc' = "fallback"
    /\ warned' = TRUE
    /\ UNCHANGED <<readable, HAS_CAMELOT, tables, lines, t, r, i, current, records,
                   tx, tx_flags, written, arg, ret>>

\* for t in tables: a table with two dates or more in its first column is
\* the transactions table; after the last table the text strategy runs.
NextTable ==
    /\ pc = "tables"
    /\ IF t > Len(tables)
       THEN /\ pc' = "fallback"
            /\ UNCHANGED <<t, r, records>>
       ELSE IF Hits(tables[t]) >= 2
       THEN /\ pc' = "rows"
            /\ r' = 1
            /\ records' = <<>>
            /\ UNCHANGED t
       ELSE /\ t' = t + 1
            /\ UNCHANGED <<pc, r, records>>
    /\ UNCHANGED <<readable, HAS_CAMELOT, tables, lines, i, current,
                   tx, tx_flags, warned, written, arg, ret>>

\* one turn of "for _, row in df.iterrows()": a row without a date is
\* skipped, a row with one is appended to records
ProcessRow ==
    /\ pc = "rows"
    /\ r <= Len(tables[t])
    /\ records' = IF r \in DateRows(tables[t])
                  THEN Append(records, RowRecord(StripCells(tables[t])[r]))
                  ELSE records
    /\ r' = r + 1
    /\ UNCHANGED <<pc, readable, HAS_CAMELOT, tables, lines, t, i, current,
                   tx, tx_flags, warned, written, arg, ret>>

\* the processing of a row raises: except Exception, warn, go on to the text
\* strategy; the rows appended so far stay in the local list
RowRaises ==
    /\ pc = "rows"
    /\ r <= Len(tables[t])
    /\ pc' = "fallback"
    /\ warned' = TRUE
    /\ UNCHANGED <<readable, HAS_CAMELOT, tables, lines, t, r, i, current, records,
                   tx, tx_flags, written, arg, ret>>

\* after the last row: if records: normalise and return
TableDone ==
    /\ pc = "rows"
    /\ r > Len(tables[t])
    /\ IF records # <<>>
       THEN /\ tx' = Normalize(DataFrame(records))
            /\ pc' = "flag"
            /\ UNCHANGED t
       ELSE /\ t' = t + 1
            /\ pc' = "tables"
            /\ UNCHANGED tx
    /\ UNCHANGED <<readable, HAS_CAMELOT, tables, lines, r, i, current, records,
                   tx_flags, warned, written, arg, ret>>

\* with pdfplumber.open(pdf_path) ...; records = []; current = None
OpenText ==
    /\ pc = "fallback"
    /\ IF readable
       THEN /\ pc' = "scan"
            /\ i' = 1
            /\ records' = ResetRecords(records)
            /\ current' = None
       ELSE /\ pc' = "fatal"
            /\ UNCHANGED <<i, records, current>>
    /\ UNCHANGED <<readable, HAS_CAMELOT, tables, lines, t, r,
                   tx, tx_flags, warned, written, arg, ret>>

\* one turn of "for line in lines" on a line date_rx matches
AnchorLine ==
    /\ pc = "scan"
    /\ i <= Len(lines)
    /\ date_rx_match(rstrip(lines[i])) # None
    /\ records' = Finalize(records, current)
    /\ current' = OpenRecord(rstrip(lines[i]))
    /\ i' = i + 1
    /\ UNCHANGED <<pc, readable, HAS_CAMELOT, tables, lines, t, r,
                   tx, tx_flags, warned, written, arg, ret>>

\* one turn of "for line in lines" on any other line
OtherLine ==
    /\ pc = "scan"
    /\ i <= Len(lines)
    /\ date_rx_match(rstrip(lines[i])) = None
    /\ current' = IF current # None
                  THEN [current EXCEPT
                           !.description = Continue(@, rstrip(lines[i]))]
                  ELSE current
    /\ i' = i + 1
    /\ UNCHANGED <<pc, readable, HAS_CAMELOT, tables, lines, t, r, records,
                   tx, tx_flags, warned, written, arg, ret>>

\* after the last line: the open record is appended, and the DataFrame is
\* returned as it is when empty, normalised otherwise
EndOfText ==
    /\ pc = "scan"
    /\ i > Len(lines)
    /\ records' = Finalize(records, current)
    /\ tx' = IF Empty(DataFrame(records'))
             THEN DataFrame(records')
             ELSE Normalize(DataFrame(records'))
    /\ pc' = "flag"
    /\ UNCHANGED <<readable, HAS_CAMELOT, tables, lines, t, r, i, current,
                   tx_flags, warned, written, arg, ret>>

\* tx_flags = flag_transactions(tx); an exception of it ends the run
FlagTransactions ==
    /\ pc = "flag"
    /\ IF flag_transactions(tx) = KeyError
       THEN /\ pc' = "fatal"
            /\ UNCHANGED tx_flags
       ELSE /\ pc' = "write"
            /\ tx_flags' = flag_transactions(tx)
    /\ UNCHANGED <<readable, HAS_CAMELOT, tables, lines, t, r, i, current, records,
                   tx, warned, written, arg, ret>>

\* acc_df.to_csv(...); tx_flags.to_csv(...)
WriteCsv ==
    /\ pc = "write"
    /\ written' = TRUE
    /\ pc' = "plot"
    /\ UNCHANGED <<readable, HAS_CAMELOT, tables, lines, t, r, i, current, records,
                   tx, tx_flags, warned, arg, ret>>

\* plot_timeline and make_report, each in a try whose except prints and goes on
PlotAndReport ==
    /\ pc = "plot"
    /\ pc' = "done"
    /\ UNCHANGED <<readable, HAS_CAMELOT, tables, lines, t, r, i, current, records,
                   tx, tx_flags, warned, written, arg, ret>>

Next ==
    \/ ExtractAccountInfo
    \/ EnterExtract
    \/ ReadPdf
    \/ ReadPdfRaises
    \/ NextTable
    \/ ProcessRow
    \/ RowRaises
    \/ TableDone
    \/ OpenText
    \/ AnchorLine
    \/ OtherLine
    \/ EndOfText
    \/ FlagTransactions
    \/ WriteCsv
    \/ PlotAndReport

Spec == Init /\ [][Next]_vars

-----------------------------------------------------------------------------
(* extract_transactions without camelot, on the documents of the text parser *)

InitText ==
    /\ pc = "extract"
    /\ readable = TRUE
    /\ HAS_CAMELOT = FALSE
    /\ tables = <<>>
    /\ lines \in SeqsUpTo(TextLineSet, MaxLines) \cup ExampleDocs
    /\ Idle

NextText ==
    \/ EnterExtract
    \/ OpenText
    \/ AnchorLine
    \/ OtherLine
    \/ EndOfText

SpecText == InitText /\ [][NextText]_vars

-----------------------------------------------------------------------------
(* The text parser against its input *)

\* the line at position x as the loop sees it
LineAt(x) == rstrip(lines[x])

IsAnchor(x) == date_rx_match(LineAt(x)) # None

DateOf(x) == date_rx_match(LineAt(x)).group1

\* the text of an anchor line after its date
AfterDate(x) == strip(SubSeq(LineAt(x), date_rx_match(LineAt(x)).end + 1, Len(LineAt(x))))

\* the positions of the anchor lines among the first n lines, in order
RECURSIVE AnchorsUpTo(_)
AnchorsUpTo(n) ==
    IF n = 0 THEN <<>>
    ELSE IF IsAnchor(n) THEN Append(AnchorsUpTo(n - 1), n)
    ELSE AnchorsUpTo(n - 1)

\* how many lines the text parser has read
Scanned == IF pc = "scan" THEN i - 1 ELSE Len(lines)

\* the text parser is at work or has returned
TextRan == pc = "scan" \/ (pc \in {"flag", "write", "plot", "done", "fatal"} /\ i > 0)

\* the records of the text parser so far, the open one last
Emitted == IF pc = "scan" /\ current # None THEN Append(records, current) ELSE records

\* the last line read of the record that the n-th of the anchor lines a opens
SegmentEnd(a, n) == IF n < Len(a) THEN a[n + 1] - 1 ELSE Scanned

\* the text after the date of line a, then the lines a+1 .. b trimmed, joined by blanks
RECURSIVE ExpectedDescription(_, _)
ExpectedDescription(a, b) ==
    IF b <= a THEN AfterDate(a)
    ELSE ExpectedDescription(a, b - 1) \o <<" ">> \o strip(lines[b])

\* C1: the text parser emits one record per anchor line, the n-th with the
\* date of the n-th anchor line; lines before the first anchor line make no
\* record; at the end of the input the open record is the last one emitted,
\* and the returned DataFrame has these records in this order.
C1_OrderPreserved ==
    TextRan =>
        LET a == AnchorsUpTo(Scanned)
        IN  /\ Len(Emitted) = Len(a)
            /\ \A n \in 1..Len(Emitted) : Emitted[n].transaction_date = DateOf(a[n])
            /\ (a = <<>>) => (records = <<>> /\ current = None)
            /\ pc = "scan" => (current = None <=> a = <<>>)
            /\ pc = "flag" =>
                   /\ Len(records) = Len(a)
                   /\ (current # None => records[Len(records)] = current)
                   /\ Len(tx.rows) = Len(records)
                   /\ \A n \in 1..Len(records) :
                          tx.rows[n].transaction_date = to_datetime(DateOf(a[n]))

\* a document that starts with a line that is no anchor and ends with the
\* second anchor line or a later one has been parsed to the end
C1_Witness ==
    /\ pc = "flag"
    /\ Len(lines) >= 3
    /\ ~IsAnchor(1)
    /\ IsAnchor(Len(lines))
    /\ Len(records) >= 2
    /\ records[1].transaction_date # records[2].transaction_date

SalaryDescription ==
    <<"S", "a", "l", "a", "r", "y", " ", "c", "r", "e", "d", "i", "t", " ", "f", "r", "o", "m", " ", "e", "m", "p", "l", "o", "y", "e", "r">>

\* C2: the description of every record is the text after the date of its
\* anchor line followed by the trimmed text of each line up to the next
\* anchor line, joined by single blanks, and its date and amounts are those
\* of the anchor line alone; "01-01-2023 Salary", "credit", "from employer"
\* and an anchor line give "Salary credit from employer" and a second record
\* with the text of its own line only.
C2_ContinuationMerge ==
    TextRan =>
        /\ LET a == AnchorsUpTo(Scanned)
           IN  \A n \in 1..Len(Emitted) :
                   Emitted[n] =
                       [OpenRecord(LineAt(a[n])) EXCEPT
                           !.description = ExpectedDescription(a[n], SegmentEnd(a, n))]
        /\ (/\ pc = "flag"
            /\ Len(lines) = 4
            /\ SubSeq(lines, 1, 3) = <<LineSalary, LineCredit, LineEmployer>>
            /\ IsAnchor(4))
           => /\ Len(records) = 2
              /\ records[1].description = SalaryDescription
              /\ records[2].description = AfterDate(4)

\* the document of the example has been parsed to the end
C2_Witness ==
    /\ pc = "flag"
    /\ Len(lines) = 4
    /\ SubSeq(lines, 1, 3) = <<LineSalary, LineCredit, LineEmployer>>
    /\ IsAnchor(4)
    /\ records[1].description = SalaryDescription
    /\ records[1].description # AfterDate(1)

\* the numbers of an anchor line, its date apart
NumbersOf(x) ==
    AMOUNT_RE_findall(SubSeq(LineAt(x), date_rx_match(LineAt(x)).end + 1, Len(LineAt(x))))

Amount(tok) == clean_amount(Str(tok))

\* C3: the record of an anchor line with one number has that number as its
\* balance and no withdrawal and no deposit; with two numbers they are its
\* deposit and balance and it has no withdrawal; with no number it has none
\* of the three amounts.
C3_FewNumbers ==
    TextRan =>
        \A n \in 1..Len(Emitted) :
            LET nums == NumbersOf(AnchorsUpTo(Scanned)[n])
                rec  == Emitted[n]
            IN  /\ Len(nums) = 0 =>
                       /\ rec.withdrawal_amount = None
                       /\ rec.deposit_amount = None
                       /\ rec.balance = None
                /\ Len(nums) = 1 =>
                       /\ rec.withdrawal_amount = None
                       /\ rec.deposit_amount = None
                       /\ rec.balance = Amount(nums[1])
                /\ Len(nums) = 2 =>
                       /\ rec.withdrawal_amount = None
                       /\ rec.deposit_amount = Amount(nums[1])
                       /\ rec.balance = Amount(nums[2])

\* s.split()
RECURSIVE split(_)
split(s) ==
    LET body == lstrip(s)
        cut  == CHOOSE p \in 1..(Len(body) + 1) :
                    /\ p = Len(body) + 1 \/ body[p] \in Whitespace
                    /\ \A q \in 1..(p - 1) : body[q] \notin Whitespace
    IN  IF body = <<>> THEN <<>>
        ELSE <<SubSeq(body, 1, cut - 1)>> \o split(SubSeq(body, cut, Len(body)))

\* a word of digits, commas and points with a digit in it
IsNumberWord(w) ==
    /\ \A p \in 1..Len(w) : w[p] \in Digits \cup {",", "."}
    /\ \E p \in 1..Len(w) : w[p] \in Digits

\* the numbers written on an anchor line after its date, each a whole word
WrittenNumbers(x) ==
    SelectSeq(split(SubSeq(LineAt(x), date_rx_match(LineAt(x)).end + 1, Len(LineAt(x)))),
              IsNumberWord)

\* C4: the record of an anchor line with exactly three numbers has them, each
\* with its full value, as withdrawal, deposit and balance from left to right.
C4_ThreeNumbers ==
    TextRan =>
        \A n \in 1..Len(Emitted) :
            LET nums == WrittenNumbers(AnchorsUpTo(Scanned)[n])
                rec  == Emitted[n]
            IN  Len(nums) = 3 =>
                    /\ rec.withdrawal_amount = Amount(nums[1])
                    /\ rec.deposit_amount = Amount(nums[2])
                    /\ rec.balance = Amount(nums[3])

-----------------------------------------------------------------------------
(* flag_transactions on one normalised record *)

DescCashDD ==
    <<"C", "a", "s", "h", " ", "w", "i", "t", "h", "d", "r", "a", "w", "a", "l", " ", "D", "D", " ", "n", "o", " ", "5", "5">>

DescArif ==
    <<"P", "a", "y", "m", "e", "n", "t", " ", "t", "o", " ", "A", "R", "I", "F", " ", "T", "R", "A", "N", "S", "P", "O", "R", "T">>

DescTariff ==
    <<"T", "a", "r", "i", "f", "f", "f", " ", "C", "o">>

DescRtgsAdd ==
    <<"x", "r", "t", "g", "s", "x", " ", "a", "d", "d">>

DescCoal ==
    <<"C", "o", "a", "l", " ", "I", "n", "d", "i", "a", " ", "d", "d", " ", "R", "T", "G", "S">>

DescCoalTwoBlanks ==
    <<"c", "o", "a", "l", " ", " ", "i", "n", "d", "i", "a", " ", "D", "D", "_", "1">>

DescGuddu ==
    <<"t", "o", " ", "G", "U", "D", "D", "U", "5", " ", "d", "d">>

DescPrabhat ==
    <<"(", "p", "r", "a", "b", "h", "a", "t", ")", " ", "R", "t", "g", "s">>

DescEmpty ==
    <<>>

DescSet == {DescCashDD, DescArif, DescTariff, DescRtgsAdd, DescCoal,
            DescCoalTwoBlanks, DescGuddu, DescPrabhat, DescEmpty}

\* NaN, nothing, and amounts below, at and above the two limits
FlagAmounts == {NaN, Float(0, 0), Float(5000, 0), Float(DD_LIMIT, 0),
                Float(1000001, 2), Float(15000, 0), Float(RTGS_LIMIT, 0),
                Float(500005, 1), Float(60000, 0)}

InitFlag ==
    /\ pc = "flag"
    /\ readable = TRUE
    /\ HAS_CAMELOT = FALSE
    /\ tables = <<>>
    /\ lines = <<>>
    /\ t = 0 /\ r = 0 /\ i = 1
    /\ current = None
    /\ records = <<>>
    /\ \E desc \in DescSet, w \in FlagAmounts, d \in FlagAmounts :
           tx = [columns |-> TxColumns,
                 rows |-> <<[transaction_date  |-> NaT,
                             description       |-> desc,
                             withdrawal_amount |-> w,
                             deposit_amount    |-> d,
                             balance           |-> NaN]>>]
    /\ tx_flags = None
    /\ warned = FALSE
    /\ written = FALSE
    /\ arg = None
    /\ ret = None

NextFlag == FlagTransactions

SpecFlag == InitFlag /\ [][NextFlag]_vars

\* the n-th character is a letter, a digit or an underscore
WordCharAt(s, n) ==
    n >= 1 /\ n <= Len(s) /\ Lower(s[n]) \in Range(LowerChars) \cup Digits \cup {"_"}

\* s holds w, whatever the case of its letters
Contains(s, w) ==
    \E a \in 1..Len(s) :
        /\ a + Len(w) - 1 <= Len(s)
        /\ [n \in 1..Len(w) |-> Lower(s[a + n - 1])] = w

\* s holds w as a whole word: with no word character right before or after it
ContainsWord(s, w) ==
    \E a \in 1..Len(s) :
        /\ a + Len(w) - 1 <= Len(s)
        /\ [n \in 1..Len(w) |-> Lower(s[a + n - 1])] = w
        /\ ~WordCharAt(s, a - 1)
        /\ ~WordCharAt(s, a + Len(w))

\* the amount is a number above the limit
Above(x, limit) == x # NaN /\ x # None /\ x.m > limit * Pow10(x.e)

Flagged == pc = "write" /\ tx_flags # None

\* C7: large_withdrawal is set exactly when the withdrawal is above 10,000
\* and the description holds the whole word DD, large_deposit exactly when the
\* deposit is above 50,000 and the description holds RTGS; a missing amount
\* sets no flag; "Cash withdrawal DD no 55" is flagged with 15000, not with 5000.
C7_ThresholdFlags ==
    Flagged =>
        \A n \in 1..Len(tx_flags.rows) :
            LET row == tx_flags.rows[n]
            IN  /\ row.flag_DD_large_withdrawal =
                       (/\ Above(row.withdrawal_amount, 10000)
                        /\ ContainsWord(row.description, <<"d", "d">>))
                /\ row.flag_RTGS_large_deposit =
                       (/\ Above(row.deposit_amount, 50000)
                        /\ Contains(row.description, <<"r", "t", "g", "s">>))
                /\ row.withdrawal_amount = NaN => ~row.flag_DD_large_withdrawal
                /\ row.deposit_amount = NaN => ~row.flag_RTGS_large_deposit
                /\ (row.description = DescCashDD /\ row.withdrawal_amount = Float(15000, 0))
                       => row.flag_DD_large_withdrawal
                /\ (row.description = DescCashDD /\ row.withdrawal_amount = Float(5000, 0))
                       => ~row.flag_DD_large_withdrawal

\* the record of the example, with 15000, has been flagged
C7_Witness ==
    /\ Flagged
    /\ tx_flags.rows[1].description = DescCashDD
    /\ tx_flags.rows[1].withdrawal_amount = Float(15000, 0)
    /\ tx_flags.rows[1].flag_DD_large_withdrawal
    /\ ~tx_flags.rows[1].flag_RTGS_large_deposit

WatchList == {<<"g", "u", "d", "d", "u">>,
              <<"p", "r", "a", "b", "h", "a", "t">>,
              <<"a", "r", "i", "f">>,
              <<"c", "o", "a", "l", " ", "i", "n", "d", "i", "a">>}

\* C8: entity_match is set exactly when the description holds an entry of
\* the watch list as a whole word, whatever the case and whatever the amounts:
\* "Payment to ARIF TRANSPORT" is flagged, "Tarifff Co" is not.
C8_EntityFlag ==
    Flagged =>
        \A n \in 1..Len(tx_flags.rows) :
            LET row == tx_flags.rows[n]
            IN  /\ row.flag_entities =
                       (\E e \in WatchList : ContainsWord(row.description, e))
                /\ row.description = DescArif => row.flag_entities
                /\ row.description = DescTariff => ~row.flag_entities

\* the first description of the example has been flagged, with no amount
C8_Witness ==
    /\ Flagged
    /\ tx_flags.rows[1].description = DescArif
    /\ tx_flags.rows[1].withdrawal_amount = NaN
    /\ tx_flags.rows[1].deposit_amount = NaN
    /\ tx_flags.rows[1].flag_entities

-----------------------------------------------------------------------------
(* clean_amount on its own *)

AmountChars == {"0", "1", ".", ",", "-", " ", "C", "r", "D", "R"}

\* the longest argument of clean_amount
MaxAmountLen == 3

InitAmount ==
    /\ pc = "clean_amount"
    /\ readable = TRUE
    /\ HAS_CAMELOT = FALSE
    /\ tables = <<>>
    /\ lines = <<>>
    /\ t = 0 /\ r = 0 /\ i = 0
    /\ current = None
    /\ records = <<>>
    /\ tx = None
    /\ tx_flags = None
    /\ warned = FALSE
    /\ written = FALSE
    /\ arg \in {None} \cup {Str(s) : s \in SeqsUpTo(AmountChars, MaxAmountLen)}
    /\ ret = None

\* ret = clean_amount(arg), or the exception it raises
CallCleanAmount ==
    /\ pc = "clean_amount"
    /\ ret' = clean_amount(arg)
    /\ pc' = IF clean_amount(arg) = ValueError THEN "raised" ELSE "returned"
    /\ UNCHANGED <<readable, HAS_CAMELOT, tables, lines, t, r, i, current, records,
                   tx, tx_flags, warned, written, arg>>

NextAmount == CallCleanAmount

SpecAmount == InitAmount /\ [][NextAmount]_vars

CountOf(s, chars) == Len(SelectSeq(s, LAMBDA c : c \in chars))

\* C9: clean_amount never raises; it returns nothing or a number that is not
\* negative; it returns nothing for no argument, for an argument without a
\* digit and for one with two points or more.
C9_CleanAmountTotal ==
    /\ pc # "raised"
    /\ pc = "returned" =>
           /\ ret = None \/ (IsFloat(ret) /\ ret.m >= 0)
           /\ arg = None => ret = None
           /\ (arg # None /\ CountOf(arg.v, Digits) = 0) => ret = None
           /\ (arg # None /\ CountOf(arg.v, {"."}) >= 2) => ret = None

\* a number is returned for an argument with a minus sign
C9_Witness ==
    /\ pc = "returned"
    /\ arg # None
    /\ CountOf(arg.v, {"-"}) > 0
    /\ IsFloat(ret)
    /\ ret.m > 0

-----------------------------------------------------------------------------
(* The whole run against its input *)

\* the positions of the rows with a date among the first n rows of df, in order
RECURSIVE DateRowsUpTo(_, _)
DateRowsUpTo(df, n) ==
    IF n = 0 THEN <<>>
    ELSE IF date_pattern_search(df[n][1]) # None THEN Append(DateRowsUpTo(df, n - 1), n)
    ELSE DateRowsUpTo(df, n - 1)

\* the records of all the rows of df that have a date, in order
TableRecords(df) ==
    [n \in 1..Len(DateRowsUpTo(df, Len(df))) |->
        RowRecord(StripCells(df)[DateRowsUpTo(df, Len(df))[n]])]

\* the record the text parser makes of the n-th of the anchor lines a
TextRecord(a, n) ==
    [OpenRecord(LineAt(a[n])) EXCEPT
        !.description = ExpectedDescription(a[n], SegmentEnd(a, n))]

Returned == pc \in {"flag", "write", "plot", "done"} \/ (pc = "fatal" /\ tx # None)

\* C5: when camelot or the processing of a table raises, no row of a table
\* is in the result, which is the output of the text parser on the lines;
\* the result is the records of the text parser alone, or the records of all
\* the dated rows of one table alone.
C5_OneStrategy ==
    /\ TextRan =>
           LET a == AnchorsUpTo(Scanned)
           IN  /\ Len(Emitted) = Len(a)
               /\ \A n \in 1..Len(Emitted) : Emitted[n] = TextRecord(a, n)
               /\ Returned =>
                      tx = IF a = <<>> THEN DataFrame(<<>>)
                           ELSE Normalize(DataFrame([n \in 1..Len(a) |-> TextRecord(a, n)]))
    /\ Returned =>
           \/ TextRan
           \/ /\ ~TextRan
              /\ ~warned
              /\ t \in 1..Len(tables)
              /\ tx = Normalize(DataFrame(TableRecords(tables[t])))
    /\ (Returned /\ warned) => TextRan

\* a table raised after a dated row of it was processed, and the run went on
\* to return the records of the text parser
C5_Witness ==
    /\ pc = "flag"
    /\ warned
    /\ r >= 2
    /\ \E x \in 1..(r - 1) : x \in DateRows(tables[t])
    /\ tx.rows # <<>>

\* no line of the document is an anchor line
NoAnchor == AnchorsUpTo(Len(lines)) = <<>>

\* no table camelot found is taken as the transactions table
NoTableQualifies == \A x \in 1..Len(tables) : Hits(tables[x]) < 2

\* C6: with no qualifying table and no anchor line the extraction returns no
\* transaction and the run goes on to flag and write; the run ends in an
\* error only for a document that cannot be opened.
C6_EmptyRunCompletes ==
    /\ (Returned /\ TextRan /\ NoAnchor) => tx.rows = <<>>
    /\ pc = "fatal" => ~readable
    /\ (pc = "done" /\ NoAnchor /\ NoTableQualifies) => (written /\ tx_flags.rows = <<>>)

\* C10: in a table of four columns or more, the description of a row is the
\* text of the columns after the first and before the last three, joined by
\* blanks, and the last three columns are withdrawal, deposit and balance.
C10_ColumnRoles ==
    (pc = "rows" /\ Len(tables[t][1]) >= 4) =>
        \A n \in 1..Len(records) :
            LET row  == StripCells(tables[t])[DateRowsUpTo(tables[t], r - 1)[n]]
                cols == Len(row)
            IN  /\ records[n].description = strip(join(<<" ">>, SubSeq(row, 2, cols - 3)))
                /\ records[n].withdrawal_amount = AmountCell(row[cols - 2])
                /\ records[n].deposit_amount = AmountCell(row[cols - 1])
                /\ records[n].balance = AmountCell(row[cols])

====
